---- MODULE Spec2Model ----
(***************************************************************************)
(* The hybrid retrieval gateway of search_agent/mcp_server:                *)
(*   server.py         startup configuration, APIKeyMiddleware, the        *)
(*                     "search" tool, the /health route                    *)
(*   search/search.py  AzureAISearchClient (__init__, search,              *)
(*                     _format_results)                                    *)
(* and the reranker cutoff of aisearch/query_examples.py.                  *)
(*                                                                         *)
(* Encoding of Python values:                                              *)
(*   Optional[x]      None is <<>>, a value v is <<v>>                     *)
(*   dict             a function whose DOMAIN is the set of present keys   *)
(*   str (title)      a sequence of one-character strings, so that         *)
(*                    rsplit can be computed                               *)
(*   str (opaque)     a TLA+ string                                        *)
(*   float score      an integer number of tenths (2.5 is 25)              *)
(***************************************************************************)
EXTENDS Integers, Sequences, FiniteSets, TLC

VARIABLES
    env,                    \* os.environ of the server process
    proc,                   \* "starting" | "serving" | "failed"
    mcp_auth_key,           \* server.py module global
    use_semantic_reranker,  \* server.py module global
    reranker_threshold,     \* server.py module global
    calls,                  \* the HTTP requests in flight, by slot
    unit,                   \* one direct call of AzureAISearchClient.search
    plan,                   \* one construction of the backend request
    fmt                     \* one direct call of _format_results

serverVars == <<env, proc, mcp_auth_key, use_semantic_reranker, reranker_threshold, calls>>
vars == <<env, proc, mcp_auth_key, use_semantic_reranker, reranker_threshold, calls, unit, plan, fmt>>

(***************************************************************************)
(* Bounds of the model                                                     *)
(***************************************************************************)
MaxHits == 2          \* longest hit list the backend returns to the server
MaxResultsArg == 2    \* largest explicit max_results of a tool call
MaxPool == 3          \* longest hit list in a direct client call
MaxUnitResults == 4   \* largest max_results of a direct client call
MaxPlanResults == 101 \* largest max_results of a request construction
MaxFormat == 2        \* longest list handed to a direct formatter call
MaxOver == 3          \* longest hit list of a backend that ignores "top"
MaxOverResults == 2   \* largest max_results of a call to such a backend

\* the request slots: two requests can be in flight at once, and a slot is
\* reused by a later request once its response is sent
CallIds == {"c1", "c2"}

(***************************************************************************)
(* Python values                                                           *)
(***************************************************************************)
None == <<>>
Some(v) == <<v>>
Val(o) == o[1]

Min(a, b) == IF a <= b THEN a ELSE b
Max(a, b) == IF a >= b THEN a ELSE b

\* dict.get(key, default)
Get(d, key, default) == IF key \in DOMAIN d THEN d[key] ELSE default

\* s[:n]
PySlice(s, n) ==
    IF n >= 0 THEN SubSeq(s, 1, Min(n, Len(s)))
    ELSE SubSeq(s, 1, Max(Len(s) + n, 0))

\* "not x" of an Optional[str]
Falsy(o) == o = None \/ o = Some("")

\* str.lower() on the values the flag variable takes
Lower(s) ==
    CASE s = "True" -> "true"
      [] s = "TRUE" -> "true"
      [] OTHER -> s

\* float(s): <<tenths>>, or None when float() raises ValueError
ParseFloat(s) ==
    CASE s = "2.1" -> Some(21)
      [] s = "2.5" -> Some(25)
      [] OTHER -> None

(***************************************************************************)
(* Program constants                                                       *)
(***************************************************************************)
VectorKRerank == 50
TopRerank == 50
DefaultMaxResults == 5
DefaultThresholdText == "2.5"
DefaultClientThreshold == 21
StatusUnauthorized == 401
StatusOK == 200

SearchErrorTitle == <<"S", "e", "a", "r", "c", "h", " ", "E", "r", "r", "o", "r">>
SearchErrorPrefix == "Could not perform a search at this time: "
ScoreKey == "@search.reranker_score"

(***************************************************************************)
(* The index backend (an external collaborator): its hits and its replies  *)
(***************************************************************************)
Title(s) == Some(s)

\* A document returned by the index: select = chunk, title, url, plus the
\* reranker score the service attaches.
Hit(chunk, title, url, score) ==
    ("chunk" :> chunk) @@ ("title" :> title) @@ ("url" :> url) @@ (ScoreKey :> score)

HitHigh == Hit(Some("c1"), Title(<<"P", "-", "2", "1", ".", "p", "d", "f">>), Some("u1"), Some(30))
HitEdge == Hit(Some("c2"), Title(<<"R", "e", "a", "d", "M", "e">>), Some("u2"), Some(25))
HitMid  == Hit(Some("c3"), Title(<<"a", ".", "b", ".", "c">>), Some("u3"), Some(23))
HitLow  == Hit(Some("c4"), Title(<<"n", ".">>), None, Some(20))
HitNoScore == Hit(Some("c5"), Title(<<".", "x">>), Some("u5"), None)
\* a document whose title field is null in the index
HitNullTitle == Hit(Some("c6"), None, Some("u6"), Some(30))
\* a document whose reranker score is exactly 2.1
HitCut == Hit(Some("c10"), Title(<<"c", "u", "t", ".", "m", "d">>), Some("u10"), Some(21))
\* a document without the url key and without a score key
HitBare == ("chunk" :> Some("c7")) @@ ("title" :> Title(<<>>))

\* the documents the server-level specification draws hit lists from
ServerPool == {HitHigh, HitMid, HitNullTitle}
\* the documents a backend that ignores "top" draws hit lists from
OverPool == {HitHigh, HitCut, HitLow, HitNoScore, HitNullTitle}
\* the documents a direct client call draws hit lists from
UnitPool == {HitHigh, HitEdge, HitMid, HitLow, HitNoScore, HitNullTitle, HitBare}

SeqsUpTo(S, n) == UNION {[1..k -> S] : k \in 0..n}

\* What SearchClient.search(**search_params) followed by list(results) can
\* produce: the hits, at most "top" of them, or an exception.
HitsReply(hits) == [kind |-> "hits", hits |-> hits, cls |-> "", msg |-> ""]
RaiseReply(cls, msg) == [kind |-> "raise", hits |-> <<>>, cls |-> cls, msg |-> msg]
NoReply == [kind |-> "none", hits |-> <<>>, cls |-> "", msg |-> ""]

ErrorReplies ==
    { RaiseReply("HttpResponseError", "Forbidden"),
      RaiseReply("ServiceRequestError", "timeout"),
      RaiseReply("ServiceResponseError", "connection closed") }

BackendReplies(params, pool, maxLen) ==
    ErrorReplies \cup
    { HitsReply(h) : h \in SeqsUpTo(pool, Min(Max(params.top, 0), maxLen)) }

\* What list(results) can hold when the service does not keep to "top":
\* the code takes every hit the iterator yields.
AnyReplies(pool, maxLen) ==
    ErrorReplies \cup { HitsReply(h) : h \in SeqsUpTo(pool, maxLen) }

(***************************************************************************)
(* search/search.py: AzureAISearchClient                                   *)
(***************************************************************************)
\* Outcome of a block of Python code: a value, or an exception raised
Returns(v) == [raised |-> FALSE, cls |-> "", msg |-> "", value |-> v]
Raises(cls, msg) == [raised |-> TRUE, cls |-> cls, msg |-> msg, value |-> <<>>]

\* a constructor that does not check the index name
AzureAISearchClient_init_NoIndexCheck(e) ==
    IF Falsy(e["AZURE_SEARCH_KEY"])
    THEN Raises("ValueError", "AZURE_SEARCH_KEY environment variable is required")
    ELSE IF Falsy(e["AZURE_SEARCH_ENDPOINT"])
    THEN Raises("ValueError", "AZURE_SEARCH_ENDPOINT environment variable is required")
    ELSE Returns([endpoint |-> Val(e["AZURE_SEARCH_ENDPOINT"]),
                  index_name |-> e["AZURE_SEARCH_INDEX"],
                  credential |-> Val(e["AZURE_SEARCH_KEY"])])

\* __init__: the three required environment variables, checked in this order
AzureAISearchClient_init(e) ==
    IF Falsy(e["AZURE_SEARCH_KEY"])
    THEN Raises("ValueError", "AZURE_SEARCH_KEY environment variable is required")
    ELSE IF Falsy(e["AZURE_SEARCH_ENDPOINT"])
    THEN Raises("ValueError", "AZURE_SEARCH_ENDPOINT environment variable is required")
    ELSE IF Falsy(e["AZURE_SEARCH_INDEX"])
    THEN Raises("ValueError", "AZURE_SEARCH_INDEX environment variable is required")
    ELSE Returns([endpoint |-> Val(e["AZURE_SEARCH_ENDPOINT"]),
                  index_name |-> Val(e["AZURE_SEARCH_INDEX"]),
                  credential |-> Val(e["AZURE_SEARCH_KEY"])])

\* no oversampling: the vector sub-query always asks for max_results
VectorK_NoOversample(max_results, use_reranker) == max_results

\* vector_k = 50 if use_semantic_reranker else max_results
VectorK(max_results, use_reranker) ==
    IF use_reranker THEN VectorKRerank ELSE max_results

\* "top": 50 if use_semantic_reranker else max_results
Top(max_results, use_reranker) ==
    IF use_reranker THEN TopRerank ELSE max_results

VectorizableTextQuery(query, max_results, use_reranker) ==
    [kind |-> "text", text |-> query,
     k_nearest_neighbors |-> VectorK(max_results, use_reranker),
     fields |-> "text_vector"]

\* search_params with the semantic keys always added
SearchParams_AlwaysSemantic(query, max_results, use_reranker) ==
    ("query_type" :> "semantic") @@
    ("semantic_configuration_name" :> "sops-semantic-configuration") @@
    ("query_caption" :> "extractive") @@
    ("search_text" :> Some(query)) @@
    ("vector_queries" :> <<VectorizableTextQuery(query, max_results, use_reranker)>>) @@
    ("top" :> Top(max_results, use_reranker)) @@
    ("select" :> <<"chunk", "title", "url">>)

\* search_params, with the semantic keys added by update() when enabled
SearchParams(query, max_results, use_reranker) ==
    LET base == ("search_text" :> Some(query)) @@
                ("vector_queries" :> <<VectorizableTextQuery(query, max_results, use_reranker)>>) @@
                ("top" :> Top(max_results, use_reranker)) @@
                ("select" :> <<"chunk", "title", "url">>)
        semantic == ("query_type" :> "semantic") @@
                    ("semantic_configuration_name" :> "sops-semantic-configuration") @@
                    ("query_caption" :> "extractive")
    IN IF use_reranker THEN semantic @@ base ELSE base

\* a filter that lets a hit without a score through
MeetsThreshold_NoneOk(result, threshold) ==
    LET reranker_score == Get(result, ScoreKey, None)
    IN reranker_score = None \/ Val(reranker_score) >= threshold

\* reranker_score is not None and reranker_score >= reranker_threshold
MeetsThreshold(result, threshold) ==
    LET reranker_score == Get(result, ScoreKey, None)
    IN reranker_score # None /\ Val(reranker_score) >= threshold

\* the loop that appends the hits meeting the threshold to filtered_results
RECURSIVE FilterLoop(_, _, _, _)
FilterLoop(raw_results, i, threshold, filtered_results) ==
    IF i > Len(raw_results) THEN filtered_results
    ELSE FilterLoop(raw_results, i + 1, threshold,
                    IF MeetsThreshold(raw_results[i], threshold)
                    THEN Append(filtered_results, raw_results[i])
                    ELSE filtered_results)

\* the [:max_results] slice taken with and without reranking
FilterAndCap_CapAlways(raw_results, max_results, use_reranker, threshold) ==
    IF use_reranker
    THEN PySlice(FilterLoop(raw_results, 1, threshold, <<>>), max_results)
    ELSE PySlice(raw_results, max_results)

\* the filter without the [:max_results] slice
FilterAndCap_NoCap(raw_results, max_results, use_reranker, threshold) ==
    IF use_reranker
    THEN FilterLoop(raw_results, 1, threshold, <<>>)
    ELSE raw_results

\* the slice taken before the filter
FilterAndCap_CapFirst(raw_results, max_results, use_reranker, threshold) ==
    IF use_reranker
    THEN FilterLoop(PySlice(raw_results, max_results), 1, threshold, <<>>)
    ELSE raw_results

\* the filter-and-cap block: filtered_results[:max_results] when reranking
FilterAndCap(raw_results, max_results, use_reranker, threshold) ==
    IF use_reranker
    THEN PySlice(FilterLoop(raw_results, 1, threshold, <<>>), max_results)
    ELSE raw_results

\* index of the last "." of t at or before position i, 0 when there is none
RECURSIVE LastDot(_, _)
LastDot(t, i) ==
    IF i = 0 THEN 0
    ELSE IF t[i] = "." THEN i
    ELSE LastDot(t, i - 1)

\* index of the first "." of t at or after position i, 0 when there is none
RECURSIVE FirstDot(_, _)
FirstDot(t, i) ==
    IF i > Len(t) THEN 0
    ELSE IF t[i] = "." THEN i
    ELSE FirstDot(t, i + 1)

\* t.split('.')[0]: the cut at the first "." instead of the last
RSplitDot_First(t) ==
    LET d == FirstDot(t, 1)
    IN IF d = 0 THEN t ELSE SubSeq(t, 1, d - 1)

\* t.rsplit('.', 1)[0]
RSplitDot(t) ==
    LET d == LastDot(t, Len(t))
    IN IF d = 0 THEN t ELSE SubSeq(t, 1, d - 1)

\* one formatted_result; a null title has no rsplit and raises AttributeError
FormatOne(result) ==
    LET title == Get(result, "title", Some(<<>>))
    IN IF title = None
       THEN Raises("AttributeError", "'NoneType' object has no attribute 'rsplit'")
       ELSE Returns([chunk |-> Get(result, "chunk", Some("")),
                     title |-> RSplitDot(Val(title)),
                     url |-> Get(result, "url", Some(""))])

\* a formatter that drops an entry equal to one it already produced
RECURSIVE FormatLoop_Dedup(_, _, _)
FormatLoop_Dedup(raw_results, i, formatted_results) ==
    IF i > Len(raw_results) THEN Returns(formatted_results)
    ELSE LET one == FormatOne(raw_results[i])
         IN IF one.raised THEN one
            ELSE IF \E k \in 1..Len(formatted_results) : formatted_results[k] = one.value
            THEN FormatLoop_Dedup(raw_results, i + 1, formatted_results)
            ELSE FormatLoop_Dedup(raw_results, i + 1, Append(formatted_results, one.value))

\* a formatter that returns the entries made so far when a hit fails
RECURSIVE FormatLoop_Partial(_, _, _)
FormatLoop_Partial(raw_results, i, formatted_results) ==
    IF i > Len(raw_results) THEN Returns(formatted_results)
    ELSE LET one == FormatOne(raw_results[i])
         IN IF one.raised THEN Returns(formatted_results)
            ELSE FormatLoop_Partial(raw_results, i + 1, Append(formatted_results, one.value))

\* _format_results: the loop over raw_results
RECURSIVE FormatLoop(_, _, _)
FormatLoop(raw_results, i, formatted_results) ==
    IF i > Len(raw_results) THEN Returns(formatted_results)
    ELSE LET one == FormatOne(raw_results[i])
         IN IF one.raised THEN one
            ELSE FormatLoop(raw_results, i + 1, Append(formatted_results, one.value))

format_results(raw_results) == FormatLoop(raw_results, 1, <<>>)

\* the body of the try block of search, from the backend's reply onward
SearchBody(reply, max_results, use_reranker, threshold) ==
    IF reply.kind = "raise" THEN Raises(reply.cls, reply.msg)
    ELSE format_results(FilterAndCap(reply.hits, max_results, use_reranker, threshold))

\* the exception classes each except clause of search catches
IsHttpResponseError(cls) == cls = "HttpResponseError"
IsException(cls) == cls \in {"HttpResponseError", "ServiceRequestError",
                             "ServiceResponseError", "AttributeError", "ValueError"}

\* a client whose only handler is "except HttpResponseError"
AzureAISearchClient_search_HttpOnly(reply, max_results, use_reranker, threshold) ==
    LET body == SearchBody(reply, max_results, use_reranker, threshold)
    IN IF ~body.raised THEN body
       ELSE IF IsHttpResponseError(body.cls) THEN Returns(<<>>)
       ELSE body

\* search: the try block with its two handlers, both returning []
AzureAISearchClient_search(reply, max_results, use_reranker, threshold) ==
    LET body == SearchBody(reply, max_results, use_reranker, threshold)
    IN IF ~body.raised THEN body
       ELSE IF IsHttpResponseError(body.cls) THEN Returns(<<>>)
       ELSE IF IsException(body.cls) THEN Returns(<<>>)
       ELSE body

(***************************************************************************)
(* aisearch/query_examples.py: the client-side cutoff of section 5         *)
(***************************************************************************)
CutoffScore == 21

\* rr = float(doc.get("@search.reranker_score", 0)), and 0.0 when float()
\* raises (a score that is None)
CutoffRR(doc) ==
    LET v == Get(doc, ScoreKey, Some(0))
    IN IF v = None THEN 0 ELSE Val(v)

\* if rr > 2.1: cut_items.append(doc)
CutoffKeeps(doc) == CutoffRR(doc) > CutoffScore

\* the loop over cut_items_raw (collect_results hands over at most five
\* documents, more than any list here holds)
RECURSIVE CutoffLoop(_, _, _)
CutoffLoop(cut_items_raw, i, cut_items) ==
    IF i > Len(cut_items_raw) THEN cut_items
    ELSE CutoffLoop(cut_items_raw, i + 1,
                    IF CutoffKeeps(cut_items_raw[i])
                    THEN Append(cut_items, cut_items_raw[i])
                    ELSE cut_items)

(***************************************************************************)
(* server.py: startup, the API key middleware, the tool and /health        *)
(***************************************************************************)
Secret == "s3cret"

EnvOf(auth, key, endpoint, index, flag, threshold) ==
    [MCP_AUTH_KEY |-> auth,
     AZURE_SEARCH_KEY |-> key,
     AZURE_SEARCH_ENDPOINT |-> endpoint,
     AZURE_SEARCH_INDEX |-> index,
     USE_SEMANTIC_RERANKER |-> flag,
     RERANKER_THRESHOLD |-> threshold]

\* the backend settings: all present, or one of the three absent or empty
BackendEnvs ==
    { <<Some("k"), Some("https://s"), Some("sops")>>,
      <<None, Some("https://s"), Some("sops")>>,
      <<Some("k"), Some(""), Some("sops")>>,
      <<Some("k"), Some("https://s"), None>> }

Envs ==
    { EnvOf(auth, b[1], b[2], b[3], flag, threshold) :
        auth \in {None, Some(""), Some(Secret)},
        b \in BackendEnvs,
        flag \in {None, Some("True")},
        threshold \in {None, Some("2.1"), Some("high")} }

\* os.getenv(name, default)
GetEnv(e, name, default) == IF e[name] = None THEN default ELSE Val(e[name])

\* a startup without the check of the secret
LoadConfig_NoCheck(e) ==
    LET key == e["MCP_AUTH_KEY"]
        flag == Lower(GetEnv(e, "USE_SEMANTIC_RERANKER", "false")) = "true"
        threshold == ParseFloat(GetEnv(e, "RERANKER_THRESHOLD", DefaultThresholdText))
    IN IF threshold = None
       THEN Raises("ValueError", "could not convert string to float")
       ELSE Returns([mcp_auth_key |-> key,
                     use_semantic_reranker |-> flag,
                     reranker_threshold |-> Val(threshold)])

\* a startup check that only refuses an unset secret ("is None"), not an
\* empty one
LoadConfig_NoneOnly(e) ==
    LET key == e["MCP_AUTH_KEY"]
        flag == Lower(GetEnv(e, "USE_SEMANTIC_RERANKER", "false")) = "true"
        threshold == ParseFloat(GetEnv(e, "RERANKER_THRESHOLD", DefaultThresholdText))
    IN IF key = None
       THEN Raises("ValueError", "MCP_AUTH_KEY environment variable not set")
       ELSE IF threshold = None
       THEN Raises("ValueError", "could not convert string to float")
       ELSE Returns([mcp_auth_key |-> key,
                     use_semantic_reranker |-> flag,
                     reranker_threshold |-> Val(threshold)])

\* the module-level code of server.py: the outcome is the three globals, or
\* the ValueError that stops the import
LoadConfig(e) ==
    LET key == e["MCP_AUTH_KEY"]
        flag == Lower(GetEnv(e, "USE_SEMANTIC_RERANKER", "false")) = "true"
        threshold == ParseFloat(GetEnv(e, "RERANKER_THRESHOLD", DefaultThresholdText))
    IN IF Falsy(key)
       THEN Raises("ValueError", "MCP_AUTH_KEY environment variable not set")
       ELSE IF threshold = None
       THEN Raises("ValueError", "could not convert string to float")
       ELSE Returns([mcp_auth_key |-> key,
                     use_semantic_reranker |-> flag,
                     reranker_threshold |-> Val(threshold)])

Unauthorized == [status |-> StatusUnauthorized, body |-> [error |-> "Unauthorized"]]
Healthy == [status |-> StatusOK, body |-> [status |-> "healthy"]]
ToolResult(list) == [status |-> StatusOK, body |-> list]
\* an exception that leaves the tool function: the call fails at the protocol level
ToolFault(msg) == [status |-> StatusOK, body |-> [isError |-> TRUE, message |-> msg]]
NoResponse == [status |-> 0, body |-> <<>>]

\* the entry the except clause of the tool returns
ErrorEntry(msg) ==
    [title |-> SearchErrorTitle, url |-> Some(""),
     content |-> Some(SearchErrorPrefix \o msg)]

\* a tool that reports an empty result list as a failure
search_except_EmptyIsError(outcome) ==
    IF ~outcome.raised
    THEN IF outcome.value = <<>> THEN Returns(<<ErrorEntry("no results")>>) ELSE outcome
    ELSE IF IsException(outcome.cls) THEN Returns(<<ErrorEntry(outcome.msg)>>)
    ELSE outcome

\* the tool's try/except around the client: "except Exception as e"
search_except(outcome) ==
    IF ~outcome.raised THEN outcome
    ELSE IF IsException(outcome.cls) THEN Returns(<<ErrorEntry(outcome.msg)>>)
    ELSE outcome

\* the response of the tool call for the outcome of its body
ToolResponse(outcome) ==
    LET out == search_except(outcome)
    IN IF out.raised THEN ToolFault(out.msg) ELSE ToolResult(out.value)

\* a gate that only compares a header that is present
KeyMismatch_PresentOnly(api_key, key) == api_key # None /\ api_key # key

\* api_key != mcp_auth_key
KeyMismatch(api_key, key) == api_key # key

NoArgs == [query |-> "", max_results |-> None]
Queries == {"policy 21"}
\* the query texts a caller can also send: empty, blank, padded
RawQueries == Queries \cup {"", " ", " policy 21 "}
\* the arguments of a tool call: FastMCP checks their types only
ToolArgsOf(queries) ==
    [query : queries,
     max_results : {None} \cup {Some(n) : n \in (0 - 1)..MaxResultsArg}]

ToolArgs == ToolArgsOf(Queries)
RawToolArgs == ToolArgsOf(RawQueries)

\* max_results: int = 5
MaxResultsOf(args) ==
    IF args.max_results = None THEN DefaultMaxResults ELSE Val(args.max_results)

IdleCall ==
    [pc |-> "idle", header |-> None, path |-> "", args |-> NoArgs,
     sent |-> <<>>, reply |-> NoReply, response |-> NoResponse]

Headers == {None, Some("wr0ng"), Some(Secret)}

\* the process starts: server.py is imported
Startup ==
    /\ proc = "starting"
    /\ LET cfg == LoadConfig(env)
       IN IF cfg.raised
          THEN /\ proc' = "failed"
               /\ UNCHANGED <<mcp_auth_key, use_semantic_reranker, reranker_threshold>>
          ELSE /\ proc' = "serving"
               /\ mcp_auth_key' = cfg.value.mcp_auth_key
               /\ use_semantic_reranker' = cfg.value.use_semantic_reranker
               /\ reranker_threshold' = cfg.value.reranker_threshold
    /\ UNCHANGED <<env, calls, unit, plan, fmt>>

\* an HTTP request arrives at http_app, its tool arguments among argset
ReceiveArgs(c, argset) ==
    /\ proc = "serving"
    /\ calls[c].pc = "idle"
    /\ \E header \in Headers :
         \/ calls' = [calls EXCEPT ![c] =
                [IdleCall EXCEPT !.pc = "received", !.header = header,
                                 !.path = "/health"]]
         \/ \E args \in argset :
              calls' = [calls EXCEPT ![c] =
                [IdleCall EXCEPT !.pc = "received", !.header = header,
                                 !.path = "/mcp", !.args = args]]
    /\ UNCHANGED <<env, proc, mcp_auth_key, use_semantic_reranker, reranker_threshold, unit, plan, fmt>>

\* an HTTP request arrives at http_app
Receive(c) == ReceiveArgs(c, ToolArgs)

\* an HTTP request arrives at http_app with any query text
Receive_raw(c) == ReceiveArgs(c, RawToolArgs)

\* a gate that builds the 401 response but forgets to return it
APIKeyMiddleware_dispatch_NoReturn(c) ==
    /\ calls[c].pc = "received"
    /\ IF KeyMismatch(calls[c].header, mcp_auth_key)
       THEN calls' = [calls EXCEPT ![c].pc = "authenticated", ![c].response = Unauthorized]
       ELSE calls' = [calls EXCEPT ![c].pc = "authenticated"]
    /\ UNCHANGED <<env, proc, mcp_auth_key, use_semantic_reranker, reranker_threshold, unit, plan, fmt>>

\* a gate that lets the liveness route through without the header
APIKeyMiddleware_dispatch_HealthExempt(c) ==
    /\ calls[c].pc = "received"
    /\ IF calls[c].path # "/health" /\ KeyMismatch(calls[c].header, mcp_auth_key)
       THEN calls' = [calls EXCEPT ![c].pc = "rejected", ![c].response = Unauthorized]
       ELSE calls' = [calls EXCEPT ![c].pc = "authenticated"]
    /\ UNCHANGED <<env, proc, mcp_auth_key, use_semantic_reranker, reranker_threshold, unit, plan, fmt>>

\* a gate that takes the X-API-KEY header off the request it forwards
APIKeyMiddleware_dispatch_StripsKey(c) ==
    /\ calls[c].pc = "received"
    /\ IF KeyMismatch(calls[c].header, mcp_auth_key)
       THEN calls' = [calls EXCEPT ![c].pc = "rejected", ![c].response = Unauthorized]
       ELSE calls' = [calls EXCEPT ![c].pc = "authenticated", ![c].header = None]
    /\ UNCHANGED <<env, proc, mcp_auth_key, use_semantic_reranker, reranker_threshold, unit, plan, fmt>>

\* APIKeyMiddleware.dispatch up to call_next
APIKeyMiddleware_dispatch(c) ==
    /\ calls[c].pc = "received"
    /\ IF KeyMismatch(calls[c].header, mcp_auth_key)
       THEN calls' = [calls EXCEPT ![c].pc = "rejected", ![c].response = Unauthorized]
       ELSE calls' = [calls EXCEPT ![c].pc = "authenticated"]
    /\ UNCHANGED <<env, proc, mcp_auth_key, use_semantic_reranker, reranker_threshold, unit, plan, fmt>>

\* a health route that probes the backend configuration
health_check_ChecksBackend(c) ==
    /\ calls[c].pc = "authenticated"
    /\ calls[c].path = "/health"
    /\ calls' = [calls EXCEPT ![c].pc = "returned",
                              ![c].response =
                                  IF AzureAISearchClient_init(env).raised
                                  THEN [status |-> 503, body |-> [status |-> "unhealthy"]]
                                  ELSE Healthy]
    /\ UNCHANGED <<env, proc, mcp_auth_key, use_semantic_reranker, reranker_threshold, unit, plan, fmt>>

\* GET /health behind the middleware
health_check(c) ==
    /\ calls[c].pc = "authenticated"
    /\ calls[c].path = "/health"
    /\ calls' = [calls EXCEPT ![c].pc = "returned", ![c].response = Healthy]
    /\ UNCHANGED <<env, proc, mcp_auth_key, use_semantic_reranker, reranker_threshold, unit, plan, fmt>>

\* a tool that switches the reranker on for the process when it is called
search_call_SetsFlag(c) ==
    /\ calls[c].pc = "authenticated"
    /\ calls[c].path = "/mcp"
    /\ use_semantic_reranker' = TRUE
    /\ LET client == AzureAISearchClient_init(env)
           params == SearchParams(calls[c].args.query, MaxResultsOf(calls[c].args), TRUE)
       IN IF client.raised
          THEN calls' = [calls EXCEPT ![c].pc = "errored",
                                      ![c].response = ToolResponse(client)]
          ELSE calls' = [calls EXCEPT ![c].pc = "queried",
                                      ![c].sent = Append(@, params)]
    /\ UNCHANGED <<env, proc, mcp_auth_key, reranker_threshold, unit, plan, fmt>>

\* a tool that validates its arguments: a blank query or a max_results
\* below 1 raises inside the try block and is answered with the error entry
search_call_Validates(c) ==
    /\ calls[c].pc = "authenticated"
    /\ calls[c].path = "/mcp"
    /\ LET client == AzureAISearchClient_init(env)
           params == SearchParams(calls[c].args.query, MaxResultsOf(calls[c].args),
                                  use_semantic_reranker)
           invalid == calls[c].args.query \in {"", " "} \/ MaxResultsOf(calls[c].args) < 1
       IN IF client.raised
          THEN calls' = [calls EXCEPT ![c].pc = "errored",
                                      ![c].response = ToolResponse(client)]
          ELSE IF invalid
          THEN calls' = [calls EXCEPT ![c].pc = "errored",
                                      ![c].response =
                                          ToolResponse(Raises("ValueError", "invalid arguments"))]
          ELSE calls' = [calls EXCEPT ![c].pc = "queried",
                                      ![c].sent = Append(@, params)]
    /\ UNCHANGED <<env, proc, mcp_auth_key, use_semantic_reranker, reranker_threshold, unit, plan, fmt>>

\* a tool whose client was constructed once, when the process started
search_call_BootClient(c) ==
    /\ calls[c].pc = "authenticated"
    /\ calls[c].path = "/mcp"
    /\ LET client == AzureAISearchClient_init(
                         [env EXCEPT !["AZURE_SEARCH_KEY"] = Some("k"),
                                     !["AZURE_SEARCH_ENDPOINT"] = Some("https://s"),
                                     !["AZURE_SEARCH_INDEX"] = Some("sops")])
           params == SearchParams(calls[c].args.query, MaxResultsOf(calls[c].args),
                                  use_semantic_reranker)
       IN IF client.raised
          THEN calls' = [calls EXCEPT ![c].pc = "errored",
                                      ![c].response = ToolResponse(client)]
          ELSE calls' = [calls EXCEPT ![c].pc = "queried",
                                      ![c].sent = Append(@, params)]
    /\ UNCHANGED <<env, proc, mcp_auth_key, use_semantic_reranker, reranker_threshold, unit, plan, fmt>>

\* the tool, up to the backend call: AzureAISearchClient() and the request
search_call(c) ==
    /\ calls[c].pc = "authenticated"
    /\ calls[c].path = "/mcp"
    /\ LET client == AzureAISearchClient_init(env)
           params == SearchParams(calls[c].args.query, MaxResultsOf(calls[c].args),
                                  use_semantic_reranker)
       IN IF client.raised
          THEN calls' = [calls EXCEPT ![c].pc = "errored",
                                      ![c].response = ToolResponse(client)]
          ELSE calls' = [calls EXCEPT ![c].pc = "queried",
                                      ![c].sent = Append(@, params)]
    /\ UNCHANGED <<env, proc, mcp_auth_key, use_semantic_reranker, reranker_threshold, unit, plan, fmt>>

\* a tool that sends the request once more when the backend call fails
search_return_Retry(c) ==
    /\ calls[c].pc = "queried"
    /\ \E reply \in BackendReplies(calls[c].sent[1], ServerPool, MaxHits) :
         LET outcome == AzureAISearchClient_search(reply, MaxResultsOf(calls[c].args),
                                                   use_semantic_reranker, reranker_threshold)
         IN IF reply.kind = "raise" /\ Len(calls[c].sent) < 2
            THEN calls' = [calls EXCEPT ![c].sent = Append(@, calls[c].sent[1])]
            ELSE calls' = [calls EXCEPT ![c].pc = IF outcome.raised THEN "errored" ELSE "returned",
                                        ![c].reply = reply,
                                        ![c].response = ToolResponse(outcome)]
    /\ UNCHANGED <<env, proc, mcp_auth_key, use_semantic_reranker, reranker_threshold, unit, plan, fmt>>

\* a tool whose client is shared by the requests in flight: the reply is
\* processed with the max_results of the request that called last
search_return_SharedArgs(c) ==
    /\ calls[c].pc = "queried"
    /\ \E reply \in BackendReplies(calls[c].sent[1], ServerPool, MaxHits) :
         LET others == {d \in CallIds \ {c} : calls[d].pc = "queried"}
             last == IF others = {} THEN c ELSE CHOOSE d \in others : TRUE
             outcome == AzureAISearchClient_search(reply, MaxResultsOf(calls[last].args),
                                                   use_semantic_reranker, reranker_threshold)
         IN calls' = [calls EXCEPT ![c].pc = IF outcome.raised THEN "errored" ELSE "returned",
                                   ![c].reply = reply,
                                   ![c].response = ToolResponse(outcome)]
    /\ UNCHANGED <<env, proc, mcp_auth_key, use_semantic_reranker, reranker_threshold, unit, plan, fmt>>

\* a tool that remembers the entries it has returned and leaves out of a
\* result list the entries another request still holds
search_return_SeenFilter(c) ==
    /\ calls[c].pc = "queried"
    /\ \E reply \in BackendReplies(calls[c].sent[1], ServerPool, MaxHits) :
         LET outcome == AzureAISearchClient_search(reply, MaxResultsOf(calls[c].args),
                                                   use_semantic_reranker, reranker_threshold)
             holders == {d \in CallIds \ {c} : calls[d].pc = "returned" /\ calls[d].path = "/mcp"}
             Fresh(e) == \A d \in holders :
                             \A k \in 1..Len(calls[d].response.body) :
                                 calls[d].response.body[k] # e
         IN calls' = [calls EXCEPT ![c].pc = IF outcome.raised THEN "errored" ELSE "returned",
                                   ![c].reply = reply,
                                   ![c].response =
                                       IF outcome.raised THEN ToolResponse(outcome)
                                       ELSE ToolResult(SelectSeq(outcome.value, Fresh))]
    /\ UNCHANGED <<env, proc, mcp_auth_key, use_semantic_reranker, reranker_threshold, unit, plan, fmt>>

\* the tool, from the backend's reply to its return
search_return(c) ==
    /\ calls[c].pc = "queried"
    /\ \E reply \in BackendReplies(calls[c].sent[1], ServerPool, MaxHits) :
         LET outcome == AzureAISearchClient_search(reply, MaxResultsOf(calls[c].args),
                                                   use_semantic_reranker, reranker_threshold)
         IN calls' = [calls EXCEPT ![c].pc = IF outcome.raised THEN "errored" ELSE "returned",
                                   ![c].reply = reply,
                                   ![c].response = ToolResponse(outcome)]
    /\ UNCHANGED <<env, proc, mcp_auth_key, use_semantic_reranker, reranker_threshold, unit, plan, fmt>>

\* the response is sent and the request's state is dropped
Close(c) ==
    /\ calls[c].pc \in {"rejected", "returned", "errored"}
    /\ calls' = [calls EXCEPT ![c] = IdleCall]
    /\ UNCHANGED <<env, proc, mcp_auth_key, use_semantic_reranker, reranker_threshold, unit, plan, fmt>>

\* the environment of a process that starts and serves with its defaults
BootEnv == EnvOf(Some(Secret), Some("k"), Some("https://s"), Some("sops"), None, None)

\* assignments to os.environ while the process serves
EnvUpdates ==
    { <<"AZURE_SEARCH_INDEX", None>>,
      <<"AZURE_SEARCH_INDEX", Some("sops")>>,
      <<"MCP_AUTH_KEY", Some("r0tated")>>,
      <<"USE_SEMANTIC_RERANKER", Some("True")>> }

\* os.environ changes under the serving process; os.getenv sees the new
\* value from then on
environ_update ==
    /\ proc = "serving"
    /\ \E u \in EnvUpdates :
         /\ env[u[1]] # u[2]
         /\ env' = [env EXCEPT ![u[1]] = u[2]]
    /\ UNCHANGED <<proc, mcp_auth_key, use_semantic_reranker, reranker_threshold, calls, unit, plan, fmt>>

(***************************************************************************)
(* A direct call of AzureAISearchClient.search, as in the module's         *)
(* __main__ block, with every input drawn from a bounded set               *)
(***************************************************************************)
UnitIdle ==
    [pc |-> "off", query |-> "", max_results |-> 0, use_semantic_reranker |-> FALSE,
     reranker_threshold |-> 0, sent |-> <<>>, reply |-> NoReply, outcome |-> Returns(<<>>)]

UnitInputs ==
    { [UnitIdle EXCEPT !.pc = "start", !.query = q, !.max_results = n,
                       !.use_semantic_reranker = u, !.reranker_threshold = t] :
        q \in RawQueries, n \in (0 - 1)..MaxUnitResults, u \in BOOLEAN,
        t \in {DefaultClientThreshold, Val(ParseFloat(DefaultThresholdText))} }

\* search up to the backend call
client_search_call ==
    /\ unit.pc = "start"
    /\ unit' = [unit EXCEPT !.pc = "queried",
                            !.sent = Append(@, SearchParams(unit.query, unit.max_results,
                                                            unit.use_semantic_reranker))]
    /\ UNCHANGED serverVars
    /\ UNCHANGED <<plan, fmt>>

\* search from the reply of the backend, one of replies, to its return
client_search_return_from(replies) ==
    /\ unit.pc = "queried"
    /\ \E reply \in replies :
         unit' = [unit EXCEPT !.pc = "done", !.reply = reply,
                              !.outcome = AzureAISearchClient_search(
                                              reply, unit.max_results,
                                              unit.use_semantic_reranker,
                                              unit.reranker_threshold)]
    /\ UNCHANGED serverVars
    /\ UNCHANGED <<plan, fmt>>

\* search from the backend's reply to its return
client_search_return ==
    client_search_return_from(BackendReplies(unit.sent[1], UnitPool, MaxPool))

\* search from the reply of a backend that ignores "top" to its return
client_search_return_over ==
    client_search_return_from(AnyReplies(OverPool, MaxOver))

\* the inputs of a direct call to a backend that ignores "top"
OverInputs ==
    { [UnitIdle EXCEPT !.pc = "start", !.query = q, !.max_results = n,
                       !.use_semantic_reranker = u, !.reranker_threshold = t] :
        q \in Queries, n \in 0..MaxOverResults, u \in BOOLEAN,
        t \in {DefaultClientThreshold, Val(ParseFloat(DefaultThresholdText))} }

(***************************************************************************)
(* The construction of the backend request alone, over the whole range of  *)
(* max_results                                                             *)
(***************************************************************************)
PlanIdle == [pc |-> "off", max_results |-> 0, use_semantic_reranker |-> FALSE, params |-> <<>>]

PlanInputs ==
    { [PlanIdle EXCEPT !.pc = "start", !.max_results = n, !.use_semantic_reranker = u] :
        n \in 0..MaxPlanResults, u \in BOOLEAN }

build_search_params ==
    /\ plan.pc = "start"
    /\ plan' = [plan EXCEPT !.pc = "built",
                            !.params = <<SearchParams("policy 21", plan.max_results,
                                                      plan.use_semantic_reranker)>>]
    /\ UNCHANGED serverVars
    /\ UNCHANGED <<unit, fmt>>

(***************************************************************************)
(* A direct call of _format_results on a list of hits that survived the    *)
(* filter, with titles of every shape                                      *)
(***************************************************************************)
HitPolicy == Hit(Some("c8"), Title(<<"P", "o", "l", "i", "c", "y", "-", "2", "1", ".", "p", "d", "f">>),
                 Some("u8"), Some(30))
HitDots == Hit(None, Title(<<".", ".">>), Some("u9"), Some(30))

FormatPool == {HitPolicy, HitEdge, HitMid, HitLow, HitNoScore, HitNullTitle, HitBare, HitDots}

FmtIdle == [pc |-> "off", raw_results |-> <<>>, outcome |-> Returns(<<>>)]

FmtInputs ==
    { [FmtIdle EXCEPT !.pc = "start", !.raw_results = r] : r \in SeqsUpTo(FormatPool, MaxFormat) }

format_call ==
    /\ fmt.pc = "start"
    /\ fmt' = [fmt EXCEPT !.pc = "done", !.outcome = format_results(fmt.raw_results)]
    /\ UNCHANGED serverVars
    /\ UNCHANGED <<unit, plan>>

(***************************************************************************)
(* Specifications                                                          *)
(***************************************************************************)
ServerOff ==
    /\ env = EnvOf(None, None, None, None, None, None)
    /\ proc = "off"
    /\ mcp_auth_key = None
    /\ use_semantic_reranker = FALSE
    /\ reranker_threshold = 0
    /\ calls = [c \in CallIds |-> IdleCall]

\* the server process, from its start
Init ==
    /\ env \in Envs
    /\ proc = "starting"
    /\ mcp_auth_key = None
    /\ use_semantic_reranker = FALSE
    /\ reranker_threshold = 0
    /\ calls = [c \in CallIds |-> IdleCall]
    /\ unit = UnitIdle
    /\ plan = PlanIdle
    /\ fmt = FmtIdle

Next ==
    \/ Startup
    \/ \E c \in CallIds : Receive(c)
    \/ \E c \in CallIds : APIKeyMiddleware_dispatch(c)
    \/ \E c \in CallIds : health_check(c)
    \/ \E c \in CallIds : search_call(c)
    \/ \E c \in CallIds : search_return(c)
    \/ \E c \in CallIds : Close(c)

Spec == Init /\ [][Next]_vars

\* the server process under its scheduling: the event loop runs every
\* handler that is ready, and the backend answers every request it is sent.
\* The process is started with the secret set and the reranker settings
\* left at their defaults, with and without each backend parameter.
LiveEnvs ==
    { e \in Envs : /\ e["MCP_AUTH_KEY"] = Some(Secret)
                   /\ e["USE_SEMANTIC_RERANKER"] = None
                   /\ e["RERANKER_THRESHOLD"] = None }

LiveInit == Init /\ env \in LiveEnvs

LiveSpec ==
    /\ LiveInit
    /\ [][Next]_vars
    /\ \A c \in CallIds :
           /\ WF_vars(APIKeyMiddleware_dispatch(c))
           /\ WF_vars(health_check(c))
           /\ WF_vars(search_call(c))
           /\ WF_vars(search_return(c))

\* the server process with an environment that changes while it serves
EnvInit == Init /\ env = BootEnv
EnvNext == Next \/ environ_update
EnvSpec == EnvInit /\ [][EnvNext]_vars

\* the server process, started with its backend configured and its
\* defaults, receiving tool calls with any query text
InputInit == Init /\ env = BootEnv
InputNext ==
    \/ Startup
    \/ \E c \in CallIds : Receive_raw(c)
    \/ \E c \in CallIds : APIKeyMiddleware_dispatch(c)
    \/ \E c \in CallIds : health_check(c)
    \/ \E c \in CallIds : search_call(c)
    \/ \E c \in CallIds : search_return(c)
    \/ \E c \in CallIds : Close(c)
InputSpec == InputInit /\ [][InputNext]_vars

\* one direct client call
SearchInit == ServerOff /\ unit \in UnitInputs /\ plan = PlanIdle /\ fmt = FmtIdle
SearchNext == client_search_call \/ client_search_return
SearchSpec == SearchInit /\ [][SearchNext]_vars

\* one direct client call to a backend that ignores "top"
OverInit == ServerOff /\ unit \in OverInputs /\ plan = PlanIdle /\ fmt = FmtIdle
OverNext == client_search_call \/ client_search_return_over
OverSpec == OverInit /\ [][OverNext]_vars

\* one request construction
PlanInit == ServerOff /\ unit = UnitIdle /\ plan \in PlanInputs /\ fmt = FmtIdle
PlanNext == build_search_params
PlanSpec == PlanInit /\ [][PlanNext]_vars

\* one direct formatter call
FormatInit == ServerOff /\ unit = UnitIdle /\ plan = PlanIdle /\ fmt \in FmtInputs
FormatNext == format_call
FormatSpec == FormatInit /\ [][FormatNext]_vars

(***************************************************************************)
(* Properties                                                              *)
(***************************************************************************)
Terminal == {"rejected", "returned", "errored"}
IsToolCall(c) == calls[c].path = "/mcp" /\ calls[c].pc \in {"returned", "errored"}

\* the synthetic entry as the specification words it: keys title, url, chunk
SpecErrorEntry(msg) ==
    [title |-> SearchErrorTitle, url |-> Some(""), chunk |-> Some(SearchErrorPrefix \o msg)]

\* C1: a request whose X-API-KEY header is absent or differs from the
\* configured secret is answered 401 {error: "Unauthorized"}, is never
\* forwarded, and no backend query is issued for it.
C1_UnauthorizedRejected ==
    \A c \in CallIds :
        (calls[c].pc # "idle" /\ calls[c].header # mcp_auth_key) =>
            /\ calls[c].pc \in {"received", "rejected"}
            /\ calls[c].sent = <<>>
            /\ calls[c].reply = NoReply
            /\ calls[c].pc = "rejected" =>
                   /\ calls[c].response.status = 401
                   /\ calls[c].response.body = [error |-> "Unauthorized"]

\* C1 witness: one request without the header and one with a wrong header
\* have both been rejected.
C1_Witness ==
    \E c, d \in CallIds :
        /\ calls[c].pc = "rejected" /\ calls[c].header = None
        /\ calls[d].pc = "rejected" /\ calls[d].header = Some("wr0ng")

\* C2: every finished tool call returns normally a list whose entries all
\* have exactly the keys chunk, title, url; a call in which an exception
\* reached the tool returns the single entry {title: "Search Error",
\* url: "", chunk: "Could not perform a search at this time: <message>"}.
C2_UniformErrorEntry ==
    \A c \in CallIds :
        IsToolCall(c) =>
            /\ calls[c].response.status = 200
            /\ DOMAIN calls[c].response.body = 1..Len(calls[c].response.body)
            /\ \A i \in DOMAIN calls[c].response.body :
                   DOMAIN calls[c].response.body[i] = {"chunk", "title", "url"}
            /\ calls[c].pc = "errored" =>
                   calls[c].response.body =
                       <<SpecErrorEntry(AzureAISearchClient_init(env).msg)>>

\* C3 (as stated): a backend query that raises "timeout" makes the tool
\* return the one-element Search Error payload.
C3_TimeoutGivesErrorEntry ==
    \A c \in CallIds :
        (IsToolCall(c) /\ calls[c].reply = RaiseReply("ServiceRequestError", "timeout")) =>
            calls[c].response.body = <<SpecErrorEntry("timeout")>>

\* C3 (amended): a backend query that raises "timeout" makes the tool
\* return normally the empty list.
C3_TimeoutGivesEmptyList ==
    \A c \in CallIds :
        (calls[c].pc \in Terminal /\ calls[c].reply = RaiseReply("ServiceRequestError", "timeout")) =>
            /\ calls[c].pc = "returned"
            /\ calls[c].response.status = 200
            /\ calls[c].response.body = <<>>

\* C3 witness: an authenticated search call whose backend query timed out
\* has finished.
C3_Witness ==
    \E c \in CallIds :
        /\ calls[c].pc \in Terminal
        /\ calls[c].header = mcp_auth_key
        /\ calls[c].reply = RaiseReply("ServiceRequestError", "timeout")

\* C4: AzureAISearchClient.search never raises: it returns a list, and the
\* empty list when the backend call fails.
C4_ClientNeverRaises ==
    unit.pc = "done" =>
        /\ ~unit.outcome.raised
        /\ DOMAIN unit.outcome.value = 1..Len(unit.outcome.value)
        /\ unit.reply.kind = "raise" => unit.outcome.value = <<>>

\* C4 witness: a direct call has returned after the backend failed with an
\* error that is not an HTTP error.
C4_Witness ==
    /\ unit.pc = "done"
    /\ unit.reply.kind = "raise"
    /\ unit.reply.cls # "HttpResponseError"
    /\ unit.use_semantic_reranker

\* C5: zero hits from the backend give the empty list from the tool, and
\* no Search Error entry.
C5_ZeroHitsGiveEmptyList ==
    \A c \in CallIds :
        (calls[c].pc \in Terminal /\ calls[c].reply = HitsReply(<<>>)) =>
            /\ calls[c].pc = "returned"
            /\ calls[c].response.status = 200
            /\ calls[c].response.body = <<>>

\* C5 witness: an authenticated search call answered with zero hits has
\* returned.
C5_Witness ==
    \E c \in CallIds :
        /\ calls[c].pc = "returned"
        /\ calls[c].path = "/mcp"
        /\ calls[c].reply = HitsReply(<<>>)

\* the two finished tool calls c and d have the same arguments, c was
\* answered with zero hits and d's backend query failed
EmptyAndFailed(c, d) ==
    /\ c # d
    /\ IsToolCall(c) /\ IsToolCall(d)
    /\ calls[c].args = calls[d].args
    /\ calls[c].reply = HitsReply(<<>>)
    /\ calls[d].reply.kind = "raise"

\* C6 (as stated): a call answered with zero hits and a call with the same
\* arguments whose backend query failed get different responses.
C6_EmptyDiffersFromFailed ==
    \A c, d \in CallIds :
        EmptyAndFailed(c, d) => calls[c].response # calls[d].response

\* C6 (amended): a call answered with zero hits and a call with the same
\* arguments whose backend query failed get the same response, the empty
\* list; only a call that could not construct the backend client gets a
\* different one, the one-entry Search Error list.
C6_EmptySameAsFailed ==
    /\ \A c, d \in CallIds :
           EmptyAndFailed(c, d) =>
               /\ calls[c].response = calls[d].response
               /\ calls[c].response.body = <<>>
    /\ \A c \in CallIds :
           (calls[c].pc = "errored") =>
               /\ calls[c].reply = NoReply
               /\ Len(calls[c].response.body) = 1
               /\ calls[c].response.body[1].title = SearchErrorTitle

\* C6 witness: two finished calls with the same arguments, one answered
\* with zero hits and one whose backend query failed.
C6_Witness == \E c, d \in CallIds : EmptyAndFailed(c, d)

\* k_nearest_neighbors of the vector sub-query of the built request
PlanK == plan.params[1]["vector_queries"][1].k_nearest_neighbors

\* C7: the oversample count is max_results for every max_results in
\* [1, 100] without reranking, and 50 for every max_results with it.
C7_OversampleCount ==
    (plan.pc = "built" /\ plan.max_results \in 1..100) =>
        /\ ~plan.use_semantic_reranker => PlanK = plan.max_results
        /\ plan.use_semantic_reranker => PlanK = 50

\* C7 witness: a request was built with reranking for max_results = 3 and
\* carries an oversample count of 50.
C7_Witness ==
    /\ plan.pc = "built"
    /\ plan.use_semantic_reranker
    /\ plan.max_results = 3
    /\ PlanK = 50

\* the hits of the reply that carry a score meeting the threshold
Passing(h) ==
    /\ ScoreKey \in DOMAIN h
    /\ h[ScoreKey] # None
    /\ h[ScoreKey][1] >= unit.reranker_threshold

C9_OnlyPassingHits ==
    (unit.pc = "done" /\ unit.use_semantic_reranker) =>
        /\ \A i \in 1..Len(unit.outcome.value) :
               \E j \in 1..Len(unit.reply.hits) :
                   /\ unit.reply.hits[j]["chunk"] = unit.outcome.value[i].chunk
                   /\ Passing(unit.reply.hits[j])
        /\ \A j \in 1..Len(unit.reply.hits) :
               ~Passing(unit.reply.hits[j]) =>
                   \A i \in 1..Len(unit.outcome.value) :
                       unit.outcome.value[i].chunk # unit.reply.hits[j]["chunk"]

\* C9 witness: a reranked call returned an entry although the reply also
\* held a hit below the threshold and a hit without a score.
C9_Witness ==
    /\ unit.pc = "done"
    /\ unit.use_semantic_reranker
    /\ Len(unit.outcome.value) > 0
    /\ \E j, k \in 1..Len(unit.reply.hits) :
           /\ Get(unit.reply.hits[j], ScoreKey, None) = None
           /\ Get(unit.reply.hits[k], ScoreKey, None) # None
           /\ ~Passing(unit.reply.hits[k])

\* the hits of the reply that pass the threshold, in backend order, and
\* the first max_results of them
Kept == SelectSeq(unit.reply.hits, Passing)
FirstKept == SubSeq(Kept, 1, Min(unit.max_results, Len(Kept)))

\* the title of h is text (or absent, which formats as the empty text)
HasTextTitle(h) == "title" \notin DOMAIN h \/ h["title"] # None

\* t without its last "." and what follows it
Stem(t) ==
    LET dots == {k \in 1..Len(t) : t[k] = "."}
    IN IF dots = {} THEN t
       ELSE SubSeq(t, 1, (CHOOSE k \in dots : \A m \in dots : m <= k) - 1)

\* the formatting of a hit whose title is text
EntryOf(h) ==
    [chunk |-> IF "chunk" \in DOMAIN h THEN h["chunk"] ELSE Some(""),
     title |-> IF "title" \in DOMAIN h THEN Stem(h["title"][1]) ELSE <<>>,
     url |-> IF "url" \in DOMAIN h THEN h["url"] ELSE Some("")]

\* C10 (as stated): with reranking, the returned sequence is the
\* formatting of the first max_results hits that pass the threshold, so
\* that when at least max_results hits pass, exactly max_results entries
\* are returned.
C10_FilterThenCap ==
    (unit.pc = "done" /\ unit.use_semantic_reranker /\ unit.reply.kind = "hits"
        /\ unit.max_results >= 0) =>
        /\ Len(unit.outcome.value) = Len(FirstKept)
        /\ \A i \in 1..Len(FirstKept) :
               HasTextTitle(FirstKept[i]) => unit.outcome.value[i] = EntryOf(FirstKept[i])

\* C10 (amended): with reranking and max_results >= 0, the returned
\* sequence is the formatting of the first max_results hits that pass the
\* threshold when each of those has a text title, and the empty list when
\* one of them has a null title.
C10_FilterThenCapOrEmpty ==
    (unit.pc = "done" /\ unit.use_semantic_reranker /\ unit.reply.kind = "hits"
        /\ unit.max_results >= 0) =>
        IF \A i \in 1..Len(FirstKept) : HasTextTitle(FirstKept[i])
        THEN unit.outcome.value = [i \in 1..Len(FirstKept) |-> EntryOf(FirstKept[i])]
        ELSE unit.outcome.value = <<>>

\* C10 witness: max_results = 1, the first hit of the reply fails the
\* threshold, the second passes, and the single entry returned is the
\* second hit's.
C10_Witness ==
    /\ unit.pc = "done"
    /\ unit.use_semantic_reranker
    /\ unit.max_results = 1
    /\ Len(unit.reply.hits) >= 2
    /\ ~Passing(unit.reply.hits[1])
    /\ Passing(unit.reply.hits[2])
    /\ Len(unit.outcome.value) = 1
    /\ unit.outcome.value[1].chunk = unit.reply.hits[2]["chunk"]

\* the direct formatter call has returned a list
Formatted == fmt.pc = "done" /\ ~fmt.outcome.raised

\* the title text of the i-th hit handed to the formatter ("" when the
\* hit has no title key)
InTitle(i) ==
    IF "title" \in DOMAIN fmt.raw_results[i] THEN fmt.raw_results[i]["title"][1] ELSE <<>>

Dots(t) == {k \in 1..Len(t) : t[k] = "."}

PolicyPdf == <<"P", "o", "l", "i", "c", "y", "-", "2", "1", ".", "p", "d", "f">>
Policy21 == <<"P", "o", "l", "i", "c", "y", "-", "2", "1">>
ReadMe == <<"R", "e", "a", "d", "M", "e">>

\* C11: the formatted title is the hit title with everything from its final
\* "." on removed, and the hit title itself when it holds no ".";
\* "Policy-21.pdf" gives "Policy-21" and "ReadMe" gives "ReadMe".
C11_TitleTransform ==
    Formatted =>
        \A i \in 1..Len(fmt.outcome.value) :
            /\ fmt.outcome.value[i].title = Stem(InTitle(i))
            /\ Dots(InTitle(i)) = {} => fmt.outcome.value[i].title = InTitle(i)
            /\ InTitle(i) = PolicyPdf => fmt.outcome.value[i].title = Policy21
            /\ InTitle(i) = ReadMe => fmt.outcome.value[i].title = ReadMe

\* C11 witness: "Policy-21.pdf", "a.b.c" and "ReadMe" have been formatted.
C11_Witness ==
    /\ Formatted
    /\ \E i, j \in 1..Len(fmt.raw_results) :
           /\ InTitle(i) = PolicyPdf
           /\ InTitle(j) \in {ReadMe, <<"a", ".", "b", ".", "c">>}

\* C12 (as stated): no returned title holds a "."-delimited suffix, so the
\* title transform leaves every returned title unchanged.
C12_TitleIdempotent ==
    Formatted =>
        \A i \in 1..Len(fmt.outcome.value) :
            /\ Dots(fmt.outcome.value[i].title) = {}
            /\ RSplitDot(fmt.outcome.value[i].title) = fmt.outcome.value[i].title

\* C12 (amended): only the last "."-delimited suffix is removed: a returned
\* title still holds a "." exactly when the hit title holds two or more,
\* and the transform leaves a returned title unchanged exactly when the hit
\* title holds at most one.
C12_LastSuffixOnly ==
    Formatted =>
        \A i \in 1..Len(fmt.outcome.value) :
            /\ (Dots(fmt.outcome.value[i].title) # {}) <=> (Cardinality(Dots(InTitle(i))) >= 2)
            /\ (RSplitDot(fmt.outcome.value[i].title) = fmt.outcome.value[i].title)
                   <=> (Cardinality(Dots(InTitle(i))) <= 1)

\* C12 witness: the title "a.b.c" has been formatted as "a.b".
C12_Witness ==
    /\ Formatted
    /\ \E i \in 1..Len(fmt.raw_results) :
           /\ InTitle(i) = <<"a", ".", "b", ".", "c">>
           /\ fmt.outcome.value[i].title = <<"a", ".", "b">>

\* C13: when the formatter returns, its output has the length of its
\* input, entry i has exactly the keys chunk, title, url, its chunk and url
\* are those of hit i ("" for a missing key), and duplicate hits are kept.
C13_OneToOne ==
    Formatted =>
        /\ Len(fmt.outcome.value) = Len(fmt.raw_results)
        /\ \A i \in 1..Len(fmt.raw_results) :
               /\ DOMAIN fmt.outcome.value[i] = {"chunk", "title", "url"}
               /\ fmt.outcome.value[i].chunk =
                      IF "chunk" \in DOMAIN fmt.raw_results[i]
                      THEN fmt.raw_results[i]["chunk"] ELSE <<"">>
               /\ fmt.outcome.value[i].url =
                      IF "url" \in DOMAIN fmt.raw_results[i]
                      THEN fmt.raw_results[i]["url"] ELSE <<"">>

\* C13 witness: the same hit was handed in twice and both entries came out.
C13_Witness ==
    /\ Formatted
    /\ Len(fmt.raw_results) = 2
    /\ fmt.raw_results[1] = fmt.raw_results[2]
    /\ Len(fmt.outcome.value) = 2
    /\ fmt.outcome.value[1] = fmt.outcome.value[2]

\* the shared secret is unset or empty in the environment
SecretUnset == env["MCP_AUTH_KEY"] \in {<<>>, <<"">>}

\* C14: with the secret unset or empty the process never serves and no
\* request is ever received; a serving process keeps serving, and a request
\* whose header mismatches is only rejected: the step that handles it
\* changes no other request and no configuration, and the slot it leaves
\* behind is the empty one.
C14_StartupFatalMismatchNot ==
    /\ [](SecretUnset => (proc # "serving" /\ \A c \in CallIds : calls[c] = IdleCall))
    /\ [][ /\ proc = "serving" => proc' = "serving"
           /\ \A c \in CallIds :
                  /\ (calls[c].pc = "received" /\ calls[c].header # mcp_auth_key
                          /\ calls'[c] # calls[c]) =>
                         /\ calls'[c].pc = "rejected"
                         /\ \A d \in CallIds \ {c} : calls'[d] = calls[d]
                         /\ <<mcp_auth_key, use_semantic_reranker, reranker_threshold>>' =
                                <<mcp_auth_key, use_semantic_reranker, reranker_threshold>>
                  /\ (calls[c].pc = "rejected" /\ calls'[c] # calls[c]) => calls'[c] = IdleCall
         ]_vars

\* C14 witness: the process serves, one request has been rejected and
\* another one has been answered by the tool meanwhile.
C14_Witness ==
    /\ proc = "serving"
    /\ \E c, d \in CallIds :
           /\ calls[c].pc = "rejected"
           /\ calls[d].pc = "returned" /\ calls[d].path = "/mcp"

\* a backend connection parameter is unset or empty in the environment
BackendMissing ==
    \E k \in {"AZURE_SEARCH_KEY", "AZURE_SEARCH_ENDPOINT", "AZURE_SEARCH_INDEX"} :
        env[k] \in {<<>>, <<"">>}

\* the first missing parameter, in the order key, endpoint, index
FirstMissing ==
    IF env["AZURE_SEARCH_KEY"] \in {<<>>, <<"">>} THEN "AZURE_SEARCH_KEY"
    ELSE IF env["AZURE_SEARCH_ENDPOINT"] \in {<<>>, <<"">>} THEN "AZURE_SEARCH_ENDPOINT"
    ELSE "AZURE_SEARCH_INDEX"

\* C15 (as stated): a process started without a backend connection
\* parameter never serves: it accepts and answers no request.
C15_NoServingWithoutBackend ==
    BackendMissing =>
        /\ proc # "serving"
        /\ \A c \in CallIds : calls[c].response = NoResponse

\* C15 (amended): a process started without a backend connection parameter
\* serves all the same; each authorized search call then fails when it
\* constructs the client, issues no backend query and is answered with the
\* one-entry Search Error list naming the missing variable.
C15_ServesAndDegrades ==
    BackendMissing =>
        \A c \in CallIds :
            IsToolCall(c) =>
                /\ calls[c].pc = "errored"
                /\ calls[c].sent = <<>>
                /\ calls[c].reply = NoReply
                /\ calls[c].response.status = 200
                /\ Len(calls[c].response.body) = 1
                /\ calls[c].response.body[1].title = SearchErrorTitle
                /\ calls[c].response.body[1].content =
                       <<SearchErrorPrefix \o FirstMissing \o " environment variable is required">>

\* C15 witness: a serving process without the index name has answered a
\* search call.
C15_Witness ==
    /\ proc = "serving"
    /\ env["AZURE_SEARCH_INDEX"] = <<>>
    /\ \E c \in CallIds : calls[c].pc = "errored"

\* C16: a /health request that passed the gate and was answered got
\* {status: "healthy"} with status 200, and no backend request was issued
\* for it, whatever the backend configuration.
C16_HealthNeedsNoBackend ==
    \A c \in CallIds :
        (calls[c].path = "/health" /\ calls[c].header = mcp_auth_key) =>
            /\ calls[c].pc \in {"received", "authenticated", "returned"}
            /\ calls[c].sent = <<>>
            /\ calls[c].reply = NoReply
            /\ calls[c].pc = "returned" =>
                   /\ calls[c].response.status = 200
                   /\ calls[c].response.body = [status |-> "healthy"]

\* C16 witness: a /health request was answered by a process whose backend
\* key is not configured.
C16_Witness ==
    /\ env["AZURE_SEARCH_KEY"] = <<>>
    /\ \E c \in CallIds : calls[c].path = "/health" /\ calls[c].pc = "returned"

\* the steps a request may take from one position to the next
CallStep(c) ==
    \/ calls[c].pc = "idle" /\ calls'[c].pc = "received"
    \/ calls[c].pc = "received" /\ calls'[c].pc \in {"rejected", "authenticated"}
    \/ calls[c].pc = "authenticated" /\ calls[c].path = "/mcp"
           /\ calls'[c].pc \in {"queried", "errored"}
    \/ calls[c].pc = "authenticated" /\ calls[c].path = "/health"
           /\ calls'[c].pc = "returned"
    \/ calls[c].pc = "queried" /\ calls'[c].pc \in {"returned", "errored"}
    \/ calls[c].pc \in Terminal /\ calls'[c] = IdleCall

\* C17: a request moves only along Received -> Rejected, Received ->
\* Authenticated -> Queried -> Returned (the reply is filtered and formatted
\* in the step that returns it) or Received -> Authenticated -> Errored; a
\* query is issued only after authentication and a response is formed only
\* in a terminal state; a terminal state is left only by dropping the
\* request, and a new request starts from the empty slot, with nothing of
\* the request before it.
C17_CallStateMachine ==
    /\ [](\A c \in CallIds :
             /\ calls[c].pc \in {"idle", "received", "authenticated", "queried"} \cup Terminal
             /\ calls[c].sent # <<>> => calls[c].header = mcp_auth_key
             /\ calls[c].pc \in {"queried", "returned", "errored"} => calls[c].header = mcp_auth_key
             /\ (calls[c].response # NoResponse) <=> (calls[c].pc \in Terminal)
             /\ calls[c].pc = "rejected" => (calls[c].sent = <<>> /\ calls[c].reply = NoReply)
             /\ (calls[c].pc = "returned" /\ calls[c].path = "/mcp") =>
                    (Len(calls[c].sent) = 1 /\ calls[c].reply # NoReply)
             /\ calls[c].pc = "queried" => (Len(calls[c].sent) = 1 /\ calls[c].reply = NoReply)
             /\ calls[c].pc = "idle" => calls[c] = IdleCall)
    /\ [][ \A c \in CallIds :
               calls'[c] # calls[c] =>
                   /\ CallStep(c)
                   /\ calls'[c].pc = "received" =>
                          /\ calls'[c].sent = <<>>
                          /\ calls'[c].reply = NoReply
                          /\ calls'[c].response = NoResponse
         ]_vars

\* C17 witness: one request was rejected and another went through the
\* query and returned formatted hits.
C17_Witness ==
    \E c, d \in CallIds :
        /\ calls[c].pc = "rejected"
        /\ calls[d].pc = "returned"
        /\ calls[d].reply.kind = "hits"
        /\ Len(calls[d].response.body) > 0

\* C18: every received request reaches Returned, Rejected or Errored, given
\* that the backend answers; a request sends at most one backend request,
\* and the step that takes the backend's answer, failure included, ends the
\* request without sending another.
C18_CallsTerminate ==
    /\ \A c \in CallIds : (calls[c].pc = "received") ~> (calls[c].pc \in Terminal)
    /\ [](\A c \in CallIds : Len(calls[c].sent) <= 1)
    /\ [][ \A c \in CallIds :
               (calls[c].pc = "queried" /\ calls'[c] # calls[c]) =>
                   /\ calls'[c].pc \in Terminal
                   /\ calls'[c].sent = calls[c].sent
         ]_vars

\* C18 witness: a request whose backend call failed has ended, having sent
\* one backend request.
C18_Witness ==
    \E c \in CallIds :
        /\ calls[c].pc \in Terminal
        /\ calls[c].reply.kind = "raise"
        /\ Len(calls[c].sent) = 1

\* the response of a request handled alone, from its own header, path,
\* arguments and backend reply and the process configuration
Alone(call) ==
    IF call.header # mcp_auth_key THEN Unauthorized
    ELSE IF call.path = "/health" THEN Healthy
    ELSE IF AzureAISearchClient_init(env).raised
    THEN ToolResult(<<ErrorEntry(AzureAISearchClient_init(env).msg)>>)
    ELSE ToolResult(AzureAISearchClient_search(call.reply, MaxResultsOf(call.args),
                                               use_semantic_reranker,
                                               reranker_threshold).value)

\* C19: whatever the interleaving of the requests in flight, the response
\* of each is the one it gets when handled alone with the same backend
\* reply, and a step of one request changes nothing of another.
C19_CallsIndependent ==
    /\ [](\A c \in CallIds : calls[c].pc \in Terminal => calls[c].response = Alone(calls[c]))
    /\ [][ \A c, d \in CallIds :
               (c # d /\ calls'[c] # calls[c]) => calls'[d] = calls[d] ]_vars

\* C19 witness: two requests have ended together, one with a failed backend
\* call and one with formatted hits.
C19_Witness ==
    \E c, d \in CallIds :
        /\ calls[c].pc \in Terminal /\ calls[c].reply.kind = "raise"
        /\ calls[d].pc = "returned" /\ calls[d].path = "/mcp"
        /\ Len(calls[d].response.body) > 0

\* C20: while the process serves, no step changes the secret, the reranker
\* flag or the threshold; the request sent to the backend asks for semantic
\* reranking exactly when the flag is set, whatever query and max_results
\* the tool was given, and with the flag set every returned entry comes
\* from a hit whose score meets the configured threshold.
C20_ConfigImmutable ==
    /\ [][ proc = "serving" =>
               <<mcp_auth_key, use_semantic_reranker, reranker_threshold>>' =
                   <<mcp_auth_key, use_semantic_reranker, reranker_threshold>> ]_vars
    /\ [](\A c \in CallIds :
             /\ calls[c].sent # <<>> =>
                    (("query_type" \in DOMAIN calls[c].sent[1]) <=> use_semantic_reranker)
             /\ (calls[c].pc = "returned" /\ calls[c].path = "/mcp" /\ use_semantic_reranker) =>
                    \A i \in 1..Len(calls[c].response.body) :
                        \E j \in 1..Len(calls[c].reply.hits) :
                            /\ calls[c].reply.hits[j]["chunk"] = calls[c].response.body[i].chunk
                            /\ ScoreKey \in DOMAIN calls[c].reply.hits[j]
                            /\ calls[c].reply.hits[j][ScoreKey] # <<>>
                            /\ calls[c].reply.hits[j][ScoreKey][1] >= reranker_threshold)

\* C20 witness: with the reranker off, a search call with an explicit
\* max_results has returned and another request was rejected.
C20_Witness ==
    /\ ~use_semantic_reranker
    /\ \E c, d \in CallIds :
           /\ calls[c].pc = "returned" /\ calls[c].args.max_results = <<1>>
           /\ calls[d].pc = "rejected"

\* the configuration LoadConfig gives for the environment the process was
\* started in
BootConfig == LoadConfig(BootEnv).value

\* C21 (as stated): every setting, the backend connection parameters
\* included, is the one of process start: whatever the environment has
\* become, the gate compares with the secret of process start, the request
\* follows the flag of process start, and the client of a search call is
\* constructed as the environment of process start lets it.
C21_ConfigReadOnce ==
    proc = "serving" =>
        /\ mcp_auth_key = BootConfig.mcp_auth_key
        /\ use_semantic_reranker = BootConfig.use_semantic_reranker
        /\ reranker_threshold = BootConfig.reranker_threshold
        /\ \A c \in CallIds :
               IsToolCall(c) =>
                   ((calls[c].pc = "errored") <=> AzureAISearchClient_init(BootEnv).raised)

\* C21 (amended): the secret, the reranker flag and the threshold are read
\* once at process start and a later change of the environment changes
\* none of them; the backend connection parameters are read from the
\* environment by every search call, which fails or succeeds in
\* constructing its client as the environment of that moment lets it.
C21_BackendReadPerCall ==
    /\ [](proc = "serving" =>
             /\ mcp_auth_key = BootConfig.mcp_auth_key
             /\ use_semantic_reranker = BootConfig.use_semantic_reranker
             /\ reranker_threshold = BootConfig.reranker_threshold
             /\ \A c \in CallIds :
                    /\ calls[c].pc \in Terminal =>
                           ((calls[c].pc = "rejected") <=> (calls[c].header # Some(Secret)))
                    /\ calls[c].sent # <<>> =>
                           (("query_type" \in DOMAIN calls[c].sent[1])
                                <=> BootConfig.use_semantic_reranker))
    /\ [][ \A c \in CallIds :
               (calls[c].pc = "authenticated" /\ calls[c].path = "/mcp"
                    /\ calls'[c] # calls[c]) =>
                   IF AzureAISearchClient_init(env).raised
                   THEN /\ calls'[c].pc = "errored"
                        /\ calls'[c].sent = <<>>
                        /\ calls'[c].response =
                               ToolResult(<<ErrorEntry(AzureAISearchClient_init(env).msg)>>)
                   ELSE /\ calls'[c].pc = "queried"
                        /\ Len(calls'[c].sent) = 1
         ]_vars

\* C21 witness: after the index name was removed from the environment and
\* the secret and the flag were changed in it, a search call with the
\* secret of process start failed to construct its client, while a call
\* with the same arguments made before the change returned hits.
C21_Witness ==
    /\ env["AZURE_SEARCH_INDEX"] = None
    /\ env["MCP_AUTH_KEY"] = Some("r0tated")
    /\ env["USE_SEMANTIC_RERANKER"] = Some("True")
    /\ \E c, d \in CallIds :
           /\ calls[c].pc = "errored" /\ calls[c].header = Some(Secret)
           /\ calls[d].pc = "returned" /\ calls[d].path = "/mcp"
           /\ calls[d].args = calls[c].args
           /\ Len(calls[d].response.body) > 0

\* c and d are two search calls with the same query and max_results, made
\* under the flag and threshold of the process, that got the same hit list
\* from the backend and have both returned
SameCall(c, d) ==
    /\ c # d
    /\ calls[c].path = "/mcp" /\ calls[d].path = "/mcp"
    /\ calls[c].pc = "returned" /\ calls[d].pc = "returned"
    /\ calls[c].args.query = calls[d].args.query
    /\ MaxResultsOf(calls[c].args) = MaxResultsOf(calls[d].args)
    /\ calls[c].reply.kind = "hits"
    /\ calls[c].reply = calls[d].reply

Strip(q) ==
    CASE q = " " -> ""
      [] q = " policy 21 " -> "policy 21"
      [] OTHER -> q

\* the keyword text and the vector text of the request call c sent
SentText(c) == calls[c].sent[1]["search_text"][1]
SentVectorText(c) == calls[c].sent[1]["vector_queries"][1].text

\* C23 (as stated): every backend query of the search tool carries a
\* trimmed, non-empty query and a positive max_results.
C23_ValidatedInputs ==
    \A c \in CallIds :
        calls[c].sent # <<>> =>
            /\ SentText(c) # ""
            /\ SentText(c) = Strip(SentText(c))
            /\ SentVectorText(c) = SentText(c)
            /\ calls[c].sent[1]["top"] > 0
            /\ calls[c].sent[1]["vector_queries"][1].k_nearest_neighbors > 0

\* C23 (amended): the search tool neither trims nor validates its
\* arguments: every authorized search call of a configured process reaches
\* the backend, its request carries the caller's query text as it came,
\* empty, blank or padded, and with reranking off its top and its
\* k_nearest_neighbors are the caller's max_results, zero or negative
\* included.
C23_InputsVerbatim ==
    \A c \in CallIds :
        /\ calls[c].pc # "errored"
        /\ IsToolCall(c) => Len(calls[c].sent) = 1
        /\ calls[c].sent # <<>> =>
               /\ SentText(c) = calls[c].args.query
               /\ SentVectorText(c) = calls[c].args.query
               /\ ~use_semantic_reranker =>
                      /\ calls[c].sent[1]["top"] = MaxResultsOf(calls[c].args)
                      /\ calls[c].sent[1]["vector_queries"][1].k_nearest_neighbors =
                             MaxResultsOf(calls[c].args)

\* C23 witness: a call with a blank query and max_results = 0 and a call
\* with a padded query and max_results = -1 have both queried the backend.
C23_Witness ==
    \E c, d \in CallIds :
        /\ calls[c].sent # <<>> /\ calls[c].args.query = " "
        /\ calls[c].sent[1]["top"] = 0
        /\ calls[d].sent # <<>> /\ calls[d].args.query = " policy 21 "
        /\ calls[d].sent[1]["top"] = 0 - 1

\* what the route behind the gate answers to the request in call
Downstream(call) ==
    IF call.path = "/health" THEN Healthy
    ELSE IF call.reply = NoReply
    THEN ToolResult(<<ErrorEntry(AzureAISearchClient_init(env).msg)>>)
    ELSE ToolResponse(AzureAISearchClient_search(call.reply, MaxResultsOf(call.args),
                                                 use_semantic_reranker, reranker_threshold))

\* C24: the step of the gate on a request whose header matches the secret
\* changes nothing but the request's position: header, path and arguments
\* go on as they came, no other request and no configuration is touched;
\* and the response of a request that passed the gate is the one the route
\* behind it produced.
C24_GateTransparent ==
    /\ [][ \A c \in CallIds :
               (calls[c].pc = "received" /\ calls[c].header = mcp_auth_key
                    /\ calls'[c] # calls[c]) =>
                   /\ calls'[c] = [calls[c] EXCEPT !.pc = "authenticated"]
                   /\ \A d \in CallIds \ {c} : calls'[d] = calls[d]
                   /\ <<env, proc, mcp_auth_key, use_semantic_reranker, reranker_threshold>>' =
                          <<env, proc, mcp_auth_key, use_semantic_reranker, reranker_threshold>>
         ]_vars
    /\ [](\A c \in CallIds :
             /\ calls[c].pc \in {"authenticated", "queried", "returned", "errored"} =>
                    calls[c].header = mcp_auth_key
             /\ calls[c].pc \in {"returned", "errored"} =>
                    calls[c].response = Downstream(calls[c]))

\* C24 witness: a search request with max_results = 2 has passed the gate
\* while another request waits for the backend.
C24_Witness ==
    \E c, d \in CallIds :
        /\ calls[c].pc = "authenticated"
        /\ calls[c].path = "/mcp"
        /\ calls[c].args.max_results = Some(2)
        /\ calls[c].header = Some(Secret)
        /\ calls[d].pc = "queried"

\* C25: a search invocation issues exactly one backend request; it
\* carries the caller's query text as it came, as the keyword text and as
\* the text of its single vector sub-query, which is of kind "text" and
\* holds no vector; with reranking it asks for the semantic mode with the
\* configuration "sops-semantic-configuration" and top = 50, and without
\* reranking it asks for top = max_results and sends no semantic key.
C25_OneFusedRequest ==
    unit.pc \in {"queried", "done"} =>
        /\ Len(unit.sent) = 1
        /\ LET p == unit.sent[1]
               vq == p["vector_queries"]
           IN /\ p["search_text"] = Some(unit.query)
              /\ Len(vq) = 1
              /\ DOMAIN vq[1] = {"kind", "text", "k_nearest_neighbors", "fields"}
              /\ vq[1].kind = "text"
              /\ vq[1].text = unit.query
              /\ IF unit.use_semantic_reranker
                 THEN /\ DOMAIN p = {"search_text", "vector_queries", "top", "select",
                                     "query_type", "semantic_configuration_name",
                                     "query_caption"}
                      /\ p["query_type"] = "semantic"
                      /\ p["semantic_configuration_name"] = "sops-semantic-configuration"
                      /\ p["top"] = 50
                 ELSE /\ DOMAIN p = {"search_text", "vector_queries", "top", "select"}
                      /\ p["top"] = unit.max_results

\* C25 witness: a call without reranking for the padded query and
\* max_results = 3 has returned hits, having sent one request.
C25_Witness ==
    /\ unit.pc = "done"
    /\ ~unit.use_semantic_reranker
    /\ unit.query = " policy 21 "
    /\ unit.max_results = 3
    /\ Len(unit.sent) = 1
    /\ Len(unit.outcome.value) = 3

\* C26: a GET /health without the header or with a wrong one is answered
\* as a data request with that header is: 401 {error: "Unauthorized"},
\* never {status: "healthy"}, and it never gets past the gate.
C26_HealthGated ==
    \A c \in CallIds :
        (calls[c].path = "/health" /\ calls[c].header # mcp_auth_key) =>
            /\ calls[c].pc \in {"received", "rejected"}
            /\ calls[c].response # Healthy
            /\ calls[c].pc = "rejected" =>
                   /\ calls[c].response.status = 401
                   /\ calls[c].response.body = [error |-> "Unauthorized"]
                   /\ \A d \in CallIds :
                          (calls[d].path = "/mcp" /\ calls[d].pc = "rejected") =>
                              calls[d].response = calls[c].response

\* C26 witness: a /health request without the header and a /health request
\* with a wrong header have both been rejected.
C26_Witness ==
    \E c, d \in CallIds :
        /\ calls[c].path = "/health" /\ calls[c].header = None /\ calls[c].pc = "rejected"
        /\ calls[d].path = "/health" /\ calls[d].header = Some("wr0ng") /\ calls[d].pc = "rejected"

\* every hit of the reply has a text title
AllText == \A j \in 1..Len(unit.reply.hits) : HasTextTitle(unit.reply.hits[j])

\* the first max_results hits of the reply
FirstHits == SubSeq(unit.reply.hits, 1, Min(unit.max_results, Len(unit.reply.hits)))

Returned(h) ==
    \E i \in 1..Len(unit.outcome.value) : unit.outcome.value[i].chunk = h["chunk"]

\* C28: with the threshold 2.1 the search tool keeps exactly the hits the
\* cutoff of query_examples.py keeps, a hit whose score is exactly 2.1
\* included, which both keep.
C28_OneOperator ==
    (unit.pc = "done" /\ unit.use_semantic_reranker /\ unit.reply.kind = "hits"
        /\ unit.reranker_threshold = CutoffScore /\ AllText
        /\ unit.max_results >= Len(unit.reply.hits)) =>
        /\ Len(unit.outcome.value) = Len(CutoffLoop(unit.reply.hits, 1, <<>>))
        /\ \A j \in 1..Len(unit.reply.hits) :
               /\ Returned(unit.reply.hits[j]) <=> CutoffKeeps(unit.reply.hits[j])
               /\ Get(unit.reply.hits[j], ScoreKey, None) = Some(CutoffScore) =>
                      (Returned(unit.reply.hits[j]) /\ CutoffKeeps(unit.reply.hits[j]))

\* C29: a serving process has a secret that is set and not empty, so the
\* absent header differs from it under every configuration the process can
\* start with, and a request without the header never gets past the gate:
\* it is received or rejected, and nothing was sent to the backend for it.
C29_AbsentHeaderNeverPasses ==
    proc = "serving" =>
        /\ mcp_auth_key # None
        /\ mcp_auth_key # Some("")
        /\ mcp_auth_key = env["MCP_AUTH_KEY"]
        /\ \A c \in CallIds :
               (calls[c].pc # "idle" /\ calls[c].header = None) =>
                   /\ calls[c].pc \in {"received", "rejected"}
                   /\ calls[c].sent = <<>>
                   /\ calls[c].pc = "rejected" => calls[c].response = Unauthorized

\* C29 witness: in a process with reranking on and a backend parameter
\* missing, a request without the header was rejected while a request with
\* the secret was answered.
C29_Witness ==
    /\ proc = "serving"
    /\ use_semantic_reranker
    /\ AzureAISearchClient_init(env).raised
    /\ \E c, d \in CallIds :
           /\ calls[c].header = None /\ calls[c].pc = "rejected"
           /\ calls[d].header = mcp_auth_key /\ calls[d].pc \in {"returned", "errored"}

\* the hits of call c's reply that go to the formatter
Survivors(c) ==
    FilterAndCap(calls[c].reply.hits, MaxResultsOf(calls[c].args),
                 use_semantic_reranker, reranker_threshold)

\* the body of call c's response is the one-entry Search Error list
IsSearchError(c) ==
    /\ Len(calls[c].response.body) = 1
    /\ calls[c].response.body[1].title = SearchErrorTitle
    /\ "content" \in DOMAIN calls[c].response.body[1]

\* C30: a finished search call returns the Search Error entry exactly
\* when it could not construct its client, in which case nothing was sent
\* to the backend; when the backend call fails, or formatting fails on a
\* hit with a null title, it returns the empty list, and never a part of
\* the hits: the list is empty or has an entry for every surviving hit.
C30_ErrorEntryOnlyFromConstruction ==
    \A c \in CallIds :
        IsToolCall(c) =>
            /\ IsSearchError(c) <=> AzureAISearchClient_init(env).raised
            /\ IsSearchError(c) <=> (calls[c].pc = "errored")
            /\ IsSearchError(c) => (calls[c].sent = <<>> /\ calls[c].reply = NoReply)
            /\ calls[c].reply.kind = "raise" => calls[c].response.body = <<>>
            /\ calls[c].reply.kind = "hits" =>
                   IF \A i \in 1..Len(Survivors(c)) : Survivors(c)[i]["title"] # None
                   THEN Len(calls[c].response.body) = Len(Survivors(c))
                   ELSE calls[c].response.body = <<>>

\* C30 witness: a search call whose reply held a hit with a text title
\* followed by a hit with a null title has returned the empty list.
C30_Witness ==
    \E c \in CallIds :
        /\ calls[c].pc = "returned"
        /\ Len(calls[c].reply.hits) = 2
        /\ calls[c].reply.hits[1]["title"] # None
        /\ calls[c].reply.hits[2]["title"] = None
        /\ Len(Survivors(c)) = 2
        /\ calls[c].response.body = <<>>

====
